---- MODULE Spec2Model ----
(***************************************************************************)
(* ExtractorUFRGS (src/main.py): extraction of exam questions from a       *)
(* paginated document.  Texts are sequences of one-character strings, so   *)
(* that the regular expressions of the source are modelled by what they    *)
(* match, character by character.                                          *)
(*                                                                         *)
(* State machine: extrair_todas_questoes runs the image pass (one step per *)
(* page), the text pass (one step per page), _processar_texto_completo     *)
(* (one step) and the final filter and sort (one step).  The document and  *)
(* every outcome of the document reader (a page whose text or image list   *)
(* cannot be read, an image that cannot be extracted or written) are       *)
(* fixed in the variable doc by Init.                                      *)
(*                                                                         *)
(* A question record keeps the fields numero, materia, enunciado,          *)
(* tem_imagem and imagens; instrucao, alternativas, tipo and formulas are  *)
(* computed from the body alone, are read by nothing else and are left     *)
(* out.  An image record keeps arquivo, pagina, index and formato; caminho *)
(* is arquivo under a fixed folder and bbox is never read.                 *)
(***************************************************************************)
EXTENDS Integers, Sequences, FiniteSets, Bags, TLC

VARIABLES
    doc,                 \* the document: per page its text and its images, with the reader's outcomes
    pc,                  \* position in extrair_todas_questoes
    page_num,            \* loop variable of the current pass
    imagens_por_pagina,  \* self.imagens_por_pagina
    materia_atual,       \* self.materia_atual
    texto_completo,      \* local texto_completo
    brutas,              \* the matches of _processar_texto_completo, with what each passes on
    estruturadas,        \* self.questoes as returned by _processar_texto_completo
    questoes             \* self.questoes

vars == <<doc, pc, page_num, imagens_por_pagina, materia_atual, texto_completo,
          brutas, estruturadas, questoes>>

\* None where the code holds an Optional[int] (a page, the next number)
Nenhum == -1

\* None where the code holds an Optional[str] (a subject): no label is empty
SemMateria == <<>>

\* an image whose extraction or write raises
Erro == "Erro"

(***************************************************************************)
(* Characters                                                              *)
(***************************************************************************)
Digitos == <<"0", "1", "2", "3", "4", "5", "6", "7", "8", "9">>

\* \d
IsDigit(c) == c \in {"0", "1", "2", "3", "4", "5", "6", "7", "8", "9"}

\* \s
IsSpace(c) == c \in {" ", "\n", "\t"}

Minusculas == <<"a", "b", "c", "d", "e", "f", "g", "h", "i", "j", "k", "l", "m",
                "n", "o", "p", "q", "r", "s", "t", "u", "v", "w", "x", "y", "z",
                "á", "ã", "ç", "ê", "í", "ó", "ú">>

Maiusculas == <<"A", "B", "C", "D", "E", "F", "G", "H", "I", "J", "K", "L", "M",
                "N", "O", "P", "Q", "R", "S", "T", "U", "V", "W", "X", "Y", "Z",
                "Á", "Ã", "Ç", "Ê", "Í", "Ó", "Ú">>

\* the lower case of each upper-case letter
Minuscula ==
    [c \in {Maiusculas[k] : k \in 1..Len(Maiusculas)} |->
        Minusculas[CHOOSE k \in 1..Len(Maiusculas) : Maiusculas[k] = c]]

\* re.IGNORECASE: both cases of a letter compare equal
Fold(c) == IF c \in DOMAIN Minuscula THEN Minuscula[c] ELSE c

Letras == {Minusculas[k] : k \in 1..Len(Minusculas)}

\* \w, the class that decides \b
IsWord(c) == IsDigit(c) \/ c = "_" \/ Fold(c) \in Letras

(***************************************************************************)
(* Strings                                                                 *)
(***************************************************************************)
Max(a, b) == IF a >= b THEN a ELSE b

\* t[i:j] of Python for the 1-based positions i .. j-1
Slice(t, i, j) == SubSeq(t, i, j - 1)

\* the literal w stands at position i of t
LitAt(t, i, w) ==
    /\ i >= 1
    /\ i + Len(w) - 1 <= Len(t)
    /\ \A k \in 1..Len(w) : t[i + k - 1] = w[k]

\* the literal w stands at position i of t, under re.IGNORECASE
LitAtCI(t, i, w) ==
    /\ i >= 1
    /\ i + Len(w) - 1 <= Len(t)
    /\ \A k \in 1..Len(w) : Fold(t[i + k - 1]) = Fold(w[k])

\* the first position >= i of t that holds no whitespace (Len(t)+1 when none)
RECURSIVE SkipSpace(_, _)
SkipSpace(t, i) ==
    IF i <= Len(t) /\ IsSpace(t[i]) THEN SkipSpace(t, i + 1) ELSE i

\* the first position >= i of t that holds no digit (Len(t)+1 when none)
RECURSIVE SkipDigits(_, _)
SkipDigits(t, i) ==
    IF i <= Len(t) /\ IsDigit(t[i]) THEN SkipDigits(t, i + 1) ELSE i

\* the last position <= j of t that holds no whitespace (0 when none)
RECURSIVE SkipSpaceBack(_, _)
SkipSpaceBack(t, j) ==
    IF j >= 1 /\ IsSpace(t[j]) THEN SkipSpaceBack(t, j - 1) ELSE j

\* str.strip()
Strip(t) == SubSeq(t, SkipSpace(t, 1), SkipSpaceBack(t, Len(t)))

\* int() of a run of decimal digits
RECURSIVE ParseInt(_)
ParseInt(ds) ==
    IF ds = <<>> THEN 0
    ELSE 10 * ParseInt(SubSeq(ds, 1, Len(ds) - 1))
         + (CHOOSE k \in 1..Len(Digitos) : Digitos[k] = ds[Len(ds)]) - 1

\* str() of a natural number, as the f-string of the page marker formats it
RECURSIVE FormatInt(_)
FormatInt(n) ==
    IF n < 10 THEN <<Digitos[n + 1]>>
    ELSE Append(FormatInt(n \div 10), Digitos[(n % 10) + 1])

(***************************************************************************)
(* Subject classification                                                  *)
(***************************************************************************)
\* the dict materias, in insertion order
materias == <<
    [keyword |-> <<"P", "O", "R", "T", "U", "G", "U", "Ê", "S">>,
     materia |-> <<"P", "o", "r", "t", "u", "g", "u", "ê", "s">>],
    [keyword |-> <<"L", "I", "T", "E", "R", "A", "T", "U", "R", "A">>,
     materia |-> <<"L", "i", "t", "e", "r", "a", "t", "u", "r", "a">>],
    [keyword |-> <<"M", "A", "T", "E", "M", "Á", "T", "I", "C", "A">>,
     materia |-> <<"M", "a", "t", "e", "m", "á", "t", "i", "c", "a">>],
    [keyword |-> <<"F", "Í", "S", "I", "C", "A">>,
     materia |-> <<"F", "í", "s", "i", "c", "a">>],
    [keyword |-> <<"Q", "U", "Í", "M", "I", "C", "A">>,
     materia |-> <<"Q", "u", "í", "m", "i", "c", "a">>],
    [keyword |-> <<"H", "I", "S", "T", "Ó", "R", "I", "A">>,
     materia |-> <<"H", "i", "s", "t", "ó", "r", "i", "a">>],
    [keyword |-> <<"G", "E", "O", "G", "R", "A", "F", "I", "A">>,
     materia |-> <<"G", "e", "o", "g", "r", "a", "f", "i", "a">>],
    [keyword |-> <<"B", "I", "O", "L", "O", "G", "I", "A">>,
     materia |-> <<"B", "i", "o", "l", "o", "g", "i", "a">>]>>

\* re.search(rf'\b{keyword}\b', texto, re.IGNORECASE)
KeywordFound(keyword, texto) ==
    \E i \in 1..Len(texto) :
        /\ LitAtCI(texto, i, keyword)
        /\ (i = 1 \/ ~IsWord(texto[i - 1]))
        /\ (i + Len(keyword) > Len(texto) \/ ~IsWord(texto[i + Len(keyword)]))

\* the first entry of the table, in table order, whose keyword is found (0 when none)
FirstMateria(texto) ==
    IF \E k \in 1..Len(materias) : KeywordFound(materias[k].keyword, texto)
    THEN CHOOSE k \in 1..Len(materias) :
            /\ KeywordFound(materias[k].keyword, texto)
            /\ \A j \in 1..(k - 1) : ~KeywordFound(materias[j].keyword, texto)
    ELSE 0

\* a classification that forgets the subject on a page that names none
DetectarSemMemoria(atual, texto) ==
    IF FirstMateria(texto) # 0 THEN materias[FirstMateria(texto)].materia ELSE SemMateria

\* _detectar_materia: the value of self.materia_atual after the call
_detectar_materia(atual, texto) ==
    IF FirstMateria(texto) # 0 THEN materias[FirstMateria(texto)].materia ELSE atual

\* _extrair_materia_contexto; atual is self.materia_atual
_extrair_materia_contexto(atual, contexto) ==
    IF FirstMateria(contexto) # 0 THEN materias[FirstMateria(contexto)].materia ELSE atual

(***************************************************************************)
(* Markers                                                                 *)
(***************************************************************************)
PAGINA == <<"[", "P", "A", "G", "I", "N", "A", ":">>

MATERIA == <<"[", "M", "A", "T", "E", "R", "I", "A", ":">>

\* f"\n[PAGINA:{page_num}]\n"
MarcadorPagina(n) == <<"\n">> \o PAGINA \o FormatInt(n) \o <<"]", "\n">>

\* f"[MATERIA:{self.materia_atual}]\n"
MarcadorMateria(m) == MATERIA \o m \o <<"]", "\n">>

\* r'\[PAGINA:(\d+)\]' matches at position i of contexto
PaginaAt(contexto, i) ==
    /\ LitAt(contexto, i, PAGINA)
    /\ SkipDigits(contexto, i + Len(PAGINA)) > i + Len(PAGINA)
    /\ SkipDigits(contexto, i + Len(PAGINA)) <= Len(contexto)
    /\ contexto[SkipDigits(contexto, i + Len(PAGINA))] = "]"

\* _extrair_pagina_contexto: re.search returns the leftmost match
_extrair_pagina_contexto(contexto) ==
    IF \E i \in 1..Len(contexto) : PaginaAt(contexto, i)
    THEN LET i == CHOOSE i \in 1..Len(contexto) :
                    /\ PaginaAt(contexto, i)
                    /\ \A j \in 1..(i - 1) : ~PaginaAt(contexto, j)
         IN  ParseInt(Slice(contexto, i + Len(PAGINA), SkipDigits(contexto, i + Len(PAGINA))))
    ELSE Nenhum

(***************************************************************************)
(* Segmentation: padrao_questao                                            *)
(*   \n\s*(\d{1,3})\s*\.\s+(.+?)(?=\n\s*\d{1,3}\s*\.\s+|\Z)   (re.DOTALL)  *)
(***************************************************************************)
\* a number pattern that takes one digit more: \d{1,4}
QuatroDigitos == 3 + 1

\* the most digits a question number may have: \d{1,3}
MaxDigitos == 3

\* the characters of context kept before a match
ContextoMax == 500

\* a body of at most this many characters is dropped
CorpoMin == 5

\* The prefix \n\s*(\d{1,3})\s*\.\s+ at position i.  \s, \d and the period are
\* disjoint classes, so each greedy run has one possible length: a run of more
\* than three digits cannot match, and only the last \s+ can give characters back.
HeaderAt(t, i) ==
    LET numIni == SkipSpace(t, i + 1)
        numFim == SkipDigits(t, numIni)
        ponto  == SkipSpace(t, numFim)
        wsFim  == SkipSpace(t, ponto + 1)
    IN  [ok     |-> /\ i >= 1 /\ i <= Len(t)
                    /\ t[i] = "\n"
                    /\ numFim - numIni >= 1
                    /\ numFim - numIni <= MaxDigitos
                    /\ ponto <= Len(t)
                    /\ t[ponto] = "."
                    /\ wsFim > ponto + 1,
         numIni |-> numIni,
         numFim |-> numFim,
         ponto  |-> ponto,
         wsFim  |-> wsFim]

\* the lookahead (?=\n\s*\d{1,3}\s*\.\s+|\Z) at position p
Lookahead(t, p) == p = Len(t) + 1 \/ HeaderAt(t, p).ok

\* (.+?) from corpoIni: the least end >= p where the lookahead holds
CorpoFim(t, p) ==
    CHOOSE e \in p..(Len(t) + 1) :
        /\ Lookahead(t, e)
        /\ \A r \in p..(e - 1) : ~Lookahead(t, r)

\* The start of the body: \s+ is greedy and gives back one character at a time
\* until (.+?) finds a character to take (0 when it never does).
CorpoIni(t, h) ==
    IF \E b \in (h.ponto + 2)..h.wsFim : b <= Len(t)
    THEN CHOOSE b \in (h.ponto + 2)..h.wsFim :
            /\ b <= Len(t)
            /\ \A c \in (b + 1)..h.wsFim : c > Len(t)
    ELSE 0

\* the match of padrao_questao that starts at position i, if any
MatchAt(t, i) ==
    LET h == HeaderAt(t, i)
        b == CorpoIni(t, h)
    IN  IF h.ok /\ b # 0
        THEN [ok |-> TRUE, inicio |-> i, numIni |-> h.numIni, numFim |-> h.numFim,
              corpoIni |-> b, fim |-> CorpoFim(t, b + 1)]
        ELSE [ok |-> FALSE, inicio |-> i, numIni |-> 0, numFim |-> 0,
              corpoIni |-> 0, fim |-> 0]

\* list(re.finditer(padrao_questao, texto, re.DOTALL)) from position pos on:
\* the leftmost match, then the matches from its end on
RECURSIVE FindAll(_, _)
FindAll(t, pos) ==
    IF \E i \in pos..Len(t) : MatchAt(t, i).ok
    THEN LET i == CHOOSE i \in pos..Len(t) :
                    /\ MatchAt(t, i).ok
                    /\ \A j \in pos..(i - 1) : ~MatchAt(t, j).ok
             m == MatchAt(t, i)
         IN  <<m>> \o FindAll(t, m.fim)
    ELSE <<>>

(***************************************************************************)
(* Image association                                                       *)
(***************************************************************************)
\* the alternatives of the reference pattern, in order
Referencias == <<
    <<"f", "i", "g", "u", "r", "a">>,
    <<"i", "m", "a", "g", "e", "m">>,
    <<"g", "r", "á", "f", "i", "c", "o">>,
    <<"t", "a", "b", "e", "l", "a">>,
    <<"d", "i", "a", "g", "r", "a", "m", "a">>,
    <<"i", "l", "u", "s", "t", "r", "a", "ç", "ã", "o">>,
    <<"q", "u", "a", "d", "r", "o">>,
    <<"m", "a", "p", "a">>,
    <<"i", "n", "f">>,
    <<"c", "h", "a", "r", "t">>>>

\* the pages searched from the question's page on: range(0, 5)
Janela == 5

\* at most this many images per question
MaxImagensQuestao == 2

\* re.search(r'figura|imagem|...|chart', texto_questao, re.IGNORECASE)
tem_referencia_imagem(texto_questao) ==
    \E k \in 1..Len(Referencias) : \E i \in 1..Len(texto_questao) :
        LitAtCI(texto_questao, i, Referencias[k])

\* the image records of page pagina_busca, as the inner loop copies them
Copiar(imgs) ==
    [k \in 1..Len(imgs) |->
        [arquivo |-> imgs[k].arquivo, pagina |-> imgs[k].pagina, formato |-> imgs[k].formato]]

\* the loop over the window without its break: every page of the window adds its images
RECURSIVE BuscarSemParar(_, _, _, _)
BuscarSemParar(indice, imagens_proximas, pagina_atual, offset) ==
    IF offset >= Janela THEN imagens_proximas
    ELSE BuscarSemParar(indice,
                        IF pagina_atual + offset \in DOMAIN indice
                        THEN imagens_proximas \o Copiar(indice[pagina_atual + offset])
                        ELSE imagens_proximas,
                        pagina_atual, offset + 1)

\* The loop over offset in range(0, 5), from offset on, with imagens_proximas
\* as collected so far: a page of the index adds its images and the loop
\* breaks as soon as the list is not empty.
RECURSIVE Buscar(_, _, _, _)
Buscar(indice, imagens_proximas, pagina_atual, offset) ==
    IF offset >= Janela THEN imagens_proximas
    ELSE LET pagina_busca == pagina_atual + offset
             achadas == IF pagina_busca \in DOMAIN indice
                        THEN imagens_proximas \o Copiar(indice[pagina_busca])
                        ELSE imagens_proximas
         IN  IF pagina_busca \in DOMAIN indice /\ achadas # <<>>
             THEN achadas
             ELSE Buscar(indice, achadas, pagina_atual, offset + 1)

\* imagens_proximas[:2]
Primeiras(s) == SubSeq(s, 1, IF Len(s) < MaxImagensQuestao THEN Len(s) ELSE MaxImagensQuestao)

\* the association without the early return of a body that holds no reference
EncontrarSemReferencia(indice, numero_questao, texto_questao, pagina_atual, proxima_questao) ==
    IF pagina_atual = Nenhum THEN <<>>
    ELSE Primeiras(Buscar(indice, <<>>, pagina_atual, 0))

\* _encontrar_imagens_por_numero; indice is self.imagens_por_pagina
_encontrar_imagens_por_numero(indice, numero_questao, texto_questao, pagina_atual, proxima_questao) ==
    IF ~tem_referencia_imagem(texto_questao) THEN <<>>
    ELSE IF pagina_atual = Nenhum THEN <<>>
    ELSE Primeiras(Buscar(indice, <<>>, pagina_atual, 0))

(***************************************************************************)
(* Enunciation                                                             *)
(***************************************************************************)
Instrucao1 == <<"I", "n", "s", "t", "r", "u", "ç", "ã", "o", ":">>

Instrucao2 == <<"I", "N", "S", "T", "R", "U", "Ç", "Ã", "O", ":">>

\* (?:Instrução|INSTRUÇÃO): at position i
InstrucaoAt(t, i) == LitAt(t, i, Instrucao1) \/ LitAt(t, i, Instrucao2)

\* the lookahead (?=\n\(|$) at position p; $ also holds before a final line break
InstrucaoLookahead(t, p) ==
    \/ LitAt(t, p, <<"\n", "(">>)
    \/ p = Len(t) + 1
    \/ (p = Len(t) /\ t[p] = "\n")

\* .*? from p: the least end where the lookahead holds
InstrucaoFim(t, p) ==
    CHOOSE e \in p..(Len(t) + 1) :
        /\ InstrucaoLookahead(t, e)
        /\ \A r \in p..(e - 1) : ~InstrucaoLookahead(t, r)

\* re.sub(r'(?:Instrução|INSTRUÇÃO):.*?(?=\n\(|$)', '', texto, flags=re.DOTALL) from pos on:
\* the text up to the leftmost match, then the text from the end of the match on
RECURSIVE SemInstrucao(_, _)
SemInstrucao(t, pos) ==
    IF \E i \in pos..Len(t) : InstrucaoAt(t, i)
    THEN LET i == CHOOSE i \in pos..Len(t) :
                    /\ InstrucaoAt(t, i)
                    /\ \A j \in pos..(i - 1) : ~InstrucaoAt(t, j)
         IN  Slice(t, pos, i) \o SemInstrucao(t, InstrucaoFim(t, i + Len(Instrucao1)))
    ELSE Slice(t, pos, Len(t) + 1)

\* \n\s*\([A-E]\) at position p
AlternativaAt(t, p) ==
    LET q == SkipSpace(t, p + 1)
    IN  /\ p >= 1 /\ p <= Len(t)
        /\ t[p] = "\n"
        /\ q + 2 <= Len(t)
        /\ t[q] = "("
        /\ t[q + 1] \in {"A", "B", "C", "D", "E"}
        /\ t[q + 2] = ")"

\* l\.\s*\d+ at position i: the end of the match (0 when it does not match)
CitacaoFim(t, i) ==
    LET q == SkipSpace(t, i + 2)
    IN  IF LitAt(t, i, <<"l", ".">>) /\ SkipDigits(t, q) > q THEN SkipDigits(t, q) ELSE 0

\* re.sub(r'l\.\s*\d+', '', enunciado) from pos on:
\* the text up to the leftmost match, then the text from the end of the match on
RECURSIVE SemCitacoes(_, _)
SemCitacoes(t, pos) ==
    IF \E i \in pos..Len(t) : CitacaoFim(t, i) # 0
    THEN LET i == CHOOSE i \in pos..Len(t) :
                    /\ CitacaoFim(t, i) # 0
                    /\ \A j \in pos..(i - 1) : CitacaoFim(t, j) = 0
         IN  Slice(t, pos, i) \o SemCitacoes(t, CitacaoFim(t, i))
    ELSE Slice(t, pos, Len(t) + 1)

\* _extrair_enunciado
_extrair_enunciado(texto) ==
    LET texto_limpo == SemInstrucao(texto, 1)
    IN  IF \E p \in 2..Len(texto_limpo) : AlternativaAt(texto_limpo, p)
        THEN LET p == CHOOSE p \in 2..Len(texto_limpo) :
                        /\ AlternativaAt(texto_limpo, p)
                        /\ \A r \in 2..(p - 1) : ~AlternativaAt(texto_limpo, r)
             IN  SemCitacoes(Strip(Slice(texto_limpo, 1, p)), 1)
        ELSE Strip(texto_limpo)

(***************************************************************************)
(* Structuring and processing                                              *)
(***************************************************************************)
\* _estruturar_questao; indice is self.imagens_por_pagina
_estruturar_questao(indice, numero, texto, materia, pagina, proxima_questao) ==
    LET imagens_relacionadas ==
            _encontrar_imagens_por_numero(indice, numero, texto, pagina, proxima_questao)
    IN  [numero     |-> numero,
         materia    |-> materia,
         enunciado  |-> _extrair_enunciado(texto),
         tem_imagem |-> Len(imagens_relacionadas) > 0,
         imagens    |-> imagens_relacionadas]

\* What the loop over the matches computes for match i before it structures it
Bruta(texto, atual, matches, i) ==
    LET m == matches[i]
        texto_questao == Strip(Slice(texto, m.corpoIni, m.fim))
        contexto_anterior == Slice(texto, Max(1, m.inicio - ContextoMax), m.inicio)
    IN  [numero   |-> ParseInt(Slice(texto, m.numIni, m.numFim)),
         texto    |-> texto_questao,
         inicio   |-> m.inicio,
         numIni   |-> m.numIni,
         corpoIni |-> m.corpoIni,
         fim      |-> m.fim,
         contexto |-> contexto_anterior,
         materia  |-> _extrair_materia_contexto(atual, contexto_anterior),
         pagina   |-> _extrair_pagina_contexto(contexto_anterior),
         proxima  |-> IF i + 1 <= Len(matches)
                      THEN ParseInt(Slice(texto, matches[i + 1].numIni, matches[i + 1].numFim))
                      ELSE Nenhum,
         emitida  |-> Len(texto_questao) > CorpoMin]

\* the matches of the text, each with what the loop passes on
Brutas(texto, atual) ==
    LET matches == FindAll(texto, 1)
    IN  [i \in 1..Len(matches) |-> Bruta(texto, atual, matches, i)]

Emitida(b) == b.emitida

\* the raw questions that are structured: a body of more than 5 characters
Emitidas(bs) == SelectSeq(bs, Emitida)

\* _processar_texto_completo applied to its matches
Estruturar(indice, bs) ==
    [k \in 1..Len(Emitidas(bs)) |->
        LET b == Emitidas(bs)[k]
        IN  _estruturar_questao(indice, b.numero, b.texto, b.materia, b.pagina, b.proxima)]

\* _processar_texto_completo; indice and atual are the object's fields
_processar_texto_completo(indice, atual, texto) == Estruturar(indice, Brutas(texto, atual))

(***************************************************************************)
(* Assembly                                                                *)
(***************************************************************************)
\* q['enunciado'].strip() is true
TemEnunciado(q) == Strip(q.enunciado) # <<>>

\* a filter on the untrimmed enunciation: q['enunciado'] is true
FiltrarSemStrip(qs) ==
    LET NaoVazio(q) == q.enunciado # <<>>
    IN  SelectSeq(qs, NaoVazio)

\* [q for q in self.questoes if q['enunciado'].strip()]
Filtrar(qs) == SelectSeq(qs, TemEnunciado)

\* q placed in the sorted list s after every record whose number is not greater
RECURSIVE Inserir(_, _)
Inserir(s, q) ==
    IF s = <<>> THEN <<q>>
    ELSE IF s[Len(s)].numero <= q.numero THEN Append(s, q)
    ELSE Append(Inserir(SubSeq(s, 1, Len(s) - 1), q), s[Len(s)])

\* the list left in document order
SemOrdenar(qs) == qs

\* list.sort(key=lambda q: q['numero']): a stable sort
RECURSIVE Ordenar(_)
Ordenar(qs) ==
    IF qs = <<>> THEN <<>>
    ELSE Inserir(Ordenar(SubSeq(qs, 1, Len(qs) - 1)), qs[Len(qs)])

(***************************************************************************)
(* The document                                                            *)
(***************************************************************************)
\* base_image['ext']
Formatos == {"png"}

\* f"pag{page_num}_img{img_index}.{base_image['ext']}"
Arquivo(pagina, index, ext) == <<"pag", pagina, "_img", index, ".", ext>>

\* page.get_text("text"): one of the texts, or it raises (texto_ok false)
Leituras(textos) ==
    {[texto_ok |-> TRUE, texto |-> t] : t \in textos} \cup {[texto_ok |-> FALSE, texto |-> <<>>]}

\* page.get_images() and the extraction of each image: a list of at most
\* maxImgs images, each its format or Erro, or get_images raises (lista_ok false)
Listas(maxImgs) ==
    {[lista_ok |-> FALSE, imagens |-> <<>>]}
    \cup {[lista_ok |-> TRUE, imagens |-> l] :
            l \in UNION {[1..k -> Formatos \cup {Erro}] : k \in 0..maxImgs}}

\* the pages of a document: a reading of the text and a reading of the images
Paginas(leituras, listas) ==
    {[texto_ok |-> r.texto_ok, texto |-> r.texto,
      lista_ok |-> l.lista_ok, imagens |-> l.imagens] : r \in leituras, l \in listas}

\* the documents of 1 to n pages
Documentos(paginas, n) == UNION {[1..k -> paginas] : k \in 1..n}

\* the most pages of a document
MaxPaginas == 2

\* the most images of a page
MaxImagens == 2

TextoMapa == <<"1", ".", " ", "m", "a", "p", "a", " ", "a", "b", "c">>

TextoDuasMaterias == <<"B", "I", "O", "L", "O", "G", "I", "A", " ", "e", " ", "G", "e", "o", "g", "r", "a", "f", "i", "a", "\n", "2", ".", " ", "t", "a", "b", "e", "l", "a", " ", "x">>

TextoNumeroVazio == <<"L", "i", "t", "e", "r", "a", "t", "u", "r", "a", "\n", "1", ".", "\n", "2", ".", " ", "f", "i", "g", "u", "r", "a">>

TextoSemQuestao == <<"b", "i", "o", "l", "o", "g", "i", "a", "s", " ", "1", "2", ".", " ", "a", "b", "c", "d", "e", "f">>

TextoDuasQuestoes == <<"3", ".", " ", "q", "u", "a", "d", "r", "o", "\n", "1", ".", " ", "i", "n", "f", " ", "x", "y", "z">>

TextoSoCitacao == <<"3", ".", " ", "l", ".", " ", "1", "2", "\n", "(", "A", ")", " ", "x">>

\* page.get_text("text") of the pages of the documents whose text varies
TextosPagina == {TextoMapa, TextoDuasMaterias, TextoNumeroVazio, TextoSemQuestao,
                 TextoDuasQuestoes, TextoSoCitacao}

(***************************************************************************)
(* extrair_todas_questoes                                                  *)
(***************************************************************************)
\* an image that fails ends the page: the images after it are not extracted
ImagensAteFalha(pagina, image_list) ==
    LET boas == {k \in 0..Len(image_list) : \A j \in 1..k : image_list[j] # Erro}
        n == CHOOSE k \in boas : \A j \in boas : j <= k
    IN  [k \in 1..n |->
            [arquivo |-> Arquivo(pagina, k - 1, image_list[k]),
             pagina  |-> pagina,
             index   |-> k - 1,
             formato |-> image_list[k]]]

\* the image records the inner loop appends for one page
ImagensExtraidas(pagina, image_list) ==
    LET todas == [k \in 1..Len(image_list) |->
                    [arquivo |-> Arquivo(pagina, k - 1, image_list[k]),
                     pagina  |-> pagina,
                     index   |-> k - 1,
                     formato |-> image_list[k]]]
        Extraida(img) == img.formato # Erro
    IN  SelectSeq(todas, Extraida)

\* self.imagens_por_pagina after the iteration of _extrair_todas_imagens for one page
IndiceApos(indice, pagina, page) ==
    IF ~page.lista_ok THEN indice
    ELSE [q \in DOMAIN indice \cup {pagina} |->
            IF q = pagina THEN ImagensExtraidas(pagina, page.imagens) ELSE indice[q]]

\* the page the pass goes on to, and the position after the last page
Seguinte(aqui, depois) ==
    /\ page_num' = IF page_num + 1 < Len(doc) THEN page_num + 1 ELSE 0
    /\ pc' = IF page_num + 1 < Len(doc) THEN aqui ELSE depois

\* one loop for both passes: the iteration also appends the page's text
ExtrairImagensComTexto ==
    /\ pc = "imagens"
    /\ imagens_por_pagina' = IndiceApos(imagens_por_pagina, page_num, doc[page_num + 1])
    /\ texto_completo' = texto_completo \o MarcadorPagina(page_num) \o doc[page_num + 1].texto
    /\ Seguinte("imagens", "texto")
    /\ UNCHANGED <<doc, materia_atual, brutas, estruturadas, questoes>>

\* one iteration of the loop of _extrair_todas_imagens
ExtrairImagensPagina ==
    /\ pc = "imagens"
    /\ imagens_por_pagina' = IndiceApos(imagens_por_pagina, page_num, doc[page_num + 1])
    /\ Seguinte("imagens", "texto")
    /\ UNCHANGED <<doc, materia_atual, texto_completo, brutas, estruturadas, questoes>>

\* what one iteration of the text loop appends to texto_completo
TextoDaPagina(pagina, materia, texto_pagina) ==
    MarcadorPagina(pagina)
    \o (IF materia # SemMateria THEN MarcadorMateria(materia) ELSE <<>>)
    \o texto_pagina

\* one iteration of the second loop of extrair_todas_questoes
ExtrairTextoPagina ==
    /\ pc = "texto"
    /\ LET page == doc[page_num + 1]
       IN  IF page.texto_ok
           THEN /\ materia_atual' = _detectar_materia(materia_atual, page.texto)
                /\ texto_completo' =
                       texto_completo \o TextoDaPagina(page_num, materia_atual', page.texto)
           ELSE UNCHANGED <<materia_atual, texto_completo>>
    /\ Seguinte("texto", "processar")
    /\ UNCHANGED <<doc, imagens_por_pagina, brutas, estruturadas, questoes>>

\* if texto_completo: self.questoes = self._processar_texto_completo(texto_completo)
ProcessarTexto ==
    /\ pc = "processar"
    /\ IF texto_completo # <<>>
       THEN /\ brutas' = Brutas(texto_completo, materia_atual)
            /\ questoes' = _processar_texto_completo(imagens_por_pagina, materia_atual,
                                                     texto_completo)
            /\ estruturadas' = questoes'
       ELSE UNCHANGED <<brutas, estruturadas, questoes>>
    /\ pc' = "montar"
    /\ UNCHANGED <<doc, page_num, imagens_por_pagina, materia_atual, texto_completo>>

\* the filter of the empty questions and the sort by number
Montar ==
    /\ pc = "montar"
    /\ questoes' = Ordenar(Filtrar(questoes))
    /\ pc' = "fim"
    /\ UNCHANGED <<doc, page_num, imagens_por_pagina, materia_atual, texto_completo,
                   brutas, estruturadas>>

\* the object after __init__, before extrair_todas_questoes
Novo ==
    /\ pc = "imagens"
    /\ page_num = 0
    /\ imagens_por_pagina = <<>>
    /\ materia_atual = SemMateria
    /\ texto_completo = <<>>
    /\ brutas = <<>>
    /\ estruturadas = <<>>
    /\ questoes = <<>>

\* documents whose images vary: every page reads the same text
Init ==
    /\ doc \in Documentos(Paginas({[texto_ok |-> TRUE, texto |-> TextoMapa]},
                                  Listas(MaxImagens)), MaxPaginas)
    /\ Novo

Next ==
    \/ ExtrairImagensPagina
    \/ ExtrairTextoPagina
    \/ ProcessarTexto
    \/ Montar

Spec == Init /\ [][Next]_vars

\* documents whose text varies: every page has one image
InitTexto ==
    /\ doc \in Documentos(Paginas(Leituras(TextosPagina),
                                  {[lista_ok |-> TRUE, imagens |-> <<"png">>]}), MaxPaginas)
    /\ Novo

SpecTexto == InitTexto /\ [][Next]_vars

(***************************************************************************)
(* Segmentation of one page whose text is any sequence of a few fragments  *)
(***************************************************************************)
\* line break, digit runs (0 and 10), period, period and blank, a word
Fragmentos == {<<"\n">>, <<"0">>, <<"1", "0">>, <<".">>, <<".", " ">>,
               <<"a", "b", "c", "d", "e", "f">>}

\* the most fragments of a page text
MaxFragmentos == 4

\* the texts of at most n fragments
RECURSIVE Textos(_)
Textos(n) ==
    IF n = 0 THEN {<<>>}
    ELSE Textos(n - 1) \cup {t \o f : t \in Textos(n - 1), f \in Fragmentos}

InitSeg ==
    /\ doc \in {<<[texto_ok |-> TRUE, texto |-> t, lista_ok |-> TRUE, imagens |-> <<>>]>> :
                    t \in Textos(MaxFragmentos)}
    /\ Novo

SpecSeg == InitSeg /\ [][Next]_vars

(***************************************************************************)
(* _estruturar_questao applied to one raw question over any index          *)
(***************************************************************************)
\* the most images of a page of the index
MaxImagensIndice == 3

\* the index of a document whose page p has f[p] images, all extracted
\* (f[p] = -1: the image list of page p could not be read)
IndiceDe(f) ==
    [p \in {q \in DOMAIN f : f[q] >= 0} |-> ImagensExtraidas(p, [k \in 1..f[p] |-> "png"])]

TextoComReferencia == <<"I", "n", "f", "o", "r", "m", "e">>

TextoSemReferencia == <<"f", "i", "g", "u", "r", " ", "a">>

\* bodies of a raw question: one holds a reference word inside a word, one none
TextosQuestao == {TextoComReferencia, TextoSemReferencia}

\* a raw question as the loop of _processar_texto_completo hands it on
BrutaDe(texto, pagina) ==
    [numero |-> 1, texto |-> texto, inicio |-> 1, numIni |-> 2, corpoIni |-> 5,
     fim |-> 5 + Len(texto), contexto |-> <<>>, materia |-> SemMateria,
     pagina |-> pagina, proxima |-> Nenhum, emitida |-> Len(texto) > CorpoMin]

InitAssoc ==
    /\ doc = <<>>
    /\ pc = "estruturar"
    /\ page_num = 0
    /\ imagens_por_pagina \in {IndiceDe(f) : f \in [0..Janela -> -1..MaxImagensIndice]}
    /\ materia_atual = SemMateria
    /\ texto_completo = <<>>
    /\ brutas \in {<<BrutaDe(t, p)>> : t \in TextosQuestao, p \in {Nenhum, 0, 1}}
    /\ estruturadas = <<>>
    /\ questoes = <<>>

\* the call of _estruturar_questao for the raw questions at hand
EstruturarQuestoes ==
    /\ pc = "estruturar"
    /\ questoes' = Estruturar(imagens_por_pagina, brutas)
    /\ estruturadas' = questoes'
    /\ pc' = "fim"
    /\ UNCHANGED <<doc, page_num, imagens_por_pagina, materia_atual, texto_completo, brutas>>

NextAssoc == EstruturarQuestoes

SpecAssoc == InitAssoc /\ [][NextAssoc]_vars

(***************************************************************************)
(* The filter and the sort applied to any short list of records            *)
(***************************************************************************)
\* the most records of a list
MaxQuestoes == 4

NumerosQuestao == {1, 2, 3}

EnunciadosQuestao == {<<" ">>, <<"a">>, <<"b">>}

QuestoesDe(n) ==
    UNION {[1..k -> {[numero |-> m, materia |-> SemMateria, enunciado |-> e,
                      tem_imagem |-> FALSE, imagens |-> <<>>] :
                        m \in NumerosQuestao, e \in EnunciadosQuestao}] : k \in 0..n}

InitMontagem ==
    /\ doc = <<>>
    /\ pc = "montar"
    /\ page_num = 0
    /\ imagens_por_pagina = <<>>
    /\ materia_atual = SemMateria
    /\ texto_completo = <<>>
    /\ brutas = <<>>
    /\ estruturadas \in QuestoesDe(MaxQuestoes)
    /\ questoes = estruturadas

NextMontagem == Montar

SpecMontagem == InitMontagem /\ [][NextMontagem]_vars

(***************************************************************************)
(* Properties                                                              *)
(***************************************************************************)
\* the raw questions that were structured, in step with estruturadas
Estruturada(k) == [bruta |-> Emitidas(brutas)[k], questao |-> estruturadas[k]]

Estruturou == pc \in {"montar", "fim"} /\ Len(estruturadas) = Len(Emitidas(brutas))

\* the pages of the window of page p that hold at least one image in the index
PaginasComImagem(p) ==
    {q \in p..(p + 4) : q \in DOMAIN imagens_por_pagina /\ imagens_por_pagina[q] # <<>>}

\* imgs are the first min(2, count) images of page q of the index, in its order
PrimeirasDaPagina(imgs, q) ==
    LET daPagina == imagens_por_pagina[q]
    IN  /\ Len(imgs) = (IF Len(daPagina) < 2 THEN Len(daPagina) ELSE 2)
        /\ \A k \in 1..Len(imgs) :
              /\ imgs[k].arquivo = daPagina[k].arquivo
              /\ imgs[k].pagina = q
              /\ imgs[k].formato = daPagina[k].formato

C2_SemReferenciaSemImagem ==
    Estruturou =>
        \A k \in 1..Len(estruturadas) :
            ~tem_referencia_imagem(Estruturada(k).bruta.texto) =>
                /\ Estruturada(k).questao.imagens = <<>>
                /\ Estruturada(k).questao.tem_imagem = FALSE

\* C2 witness: a body without a reference word on a page that has images
C2_Witness ==
    /\ Estruturou
    /\ Len(estruturadas) = 1
    /\ ~tem_referencia_imagem(brutas[1].texto)
    /\ brutas[1].pagina = 0
    /\ 0 \in DOMAIN imagens_por_pagina /\ Len(imagens_por_pagina[0]) >= 1
    /\ estruturadas[1].tem_imagem = FALSE

\* the positions of the numbers of the numbered lines of a text: line break,
\* optional whitespace, 1-3 digits, optional whitespace, period, whitespace
LinhasNumeradas(t) == {HeaderAt(t, i).numIni : i \in {j \in 1..Len(t) : HeaderAt(t, j).ok}}

\* C3: every numbered line starts its own question, in document order, and
\* no body reaches into the number line of the next question.
C3_FronteiraDasQuestoes ==
    pc \in {"montar", "fim"} =>
        /\ {brutas[k].numIni : k \in 1..Len(brutas)} = LinhasNumeradas(texto_completo)
        /\ \A k \in 1..(Len(brutas) - 1) : brutas[k].inicio < brutas[k + 1].inicio
        /\ \A k \in 1..Len(brutas) : \A d \in LinhasNumeradas(texto_completo) :
              ~(brutas[k].corpoIni <= d /\ d < brutas[k].fim)

\* the number of records of the list qs equal to r
Vezes(qs, r) == Cardinality({k \in 1..Len(qs) : qs[k] = r})

\* C4: the final collection holds exactly the structured records whose
\* trimmed enunciation is not empty, each as many times as it was
\* structured, in non-decreasing order of number.
C4_Montagem ==
    pc = "fim" =>
        /\ \A k \in 1..Len(questoes) : Strip(questoes[k].enunciado) # <<>>
        /\ \A k \in 1..Len(estruturadas) :
              Vezes(questoes, estruturadas[k]) =
                  (IF Strip(estruturadas[k].enunciado) # <<>>
                   THEN Vezes(estruturadas, estruturadas[k]) ELSE 0)
        /\ \A k \in 1..Len(questoes) : Vezes(estruturadas, questoes[k]) >= 1
        /\ \A k \in 1..(Len(questoes) - 1) : questoes[k].numero <= questoes[k + 1].numero

\* C4 witness: numbers 3, 1, 1, 2 with one blank enunciation give three records
C4_Witness ==
    /\ pc = "fim"
    /\ Len(estruturadas) = 4
    /\ estruturadas[1].numero = 3 /\ estruturadas[2].numero = 1
    /\ estruturadas[3].numero = 1 /\ estruturadas[4].numero = 2
    /\ estruturadas[2].enunciado = <<" ">>
    /\ Len(questoes) = 3
    /\ questoes[1].numero = 1 /\ questoes[2].numero = 2 /\ questoes[3].numero = 3

\* C5 as stated: the final collection is strictly ascending by number, so
\* that every number is unique.
C5_EstritamenteCrescente ==
    pc = "fim" =>
        \A k \in 1..(Len(questoes) - 1) : questoes[k].numero < questoes[k + 1].numero

\* C5 as amended: the final collection is in non-decreasing order of number;
\* two records may share a number.
C5_NaoDecrescente ==
    pc = "fim" =>
        \A j, k \in 1..Len(questoes) : j < k => questoes[j].numero <= questoes[k].numero

\* C5 witness: the document order was not the order of the numbers, and
\* the final collection holds the same records in the order of the numbers
C5_Witness ==
    /\ pc = "fim"
    /\ Len(estruturadas) = 2
    /\ estruturadas[1].numero > estruturadas[2].numero
    /\ questoes = <<estruturadas[2], estruturadas[1]>>

\* C6 as stated: every raw question and every record has a number of at least 1.
C6_NumeroPositivo ==
    /\ \A k \in 1..Len(brutas) : brutas[k].emitida => brutas[k].numero >= 1
    /\ \A k \in 1..Len(questoes) : questoes[k].numero >= 1

\* C6 as amended: every raw question and every record has a number from 0
\* to 999, the value of a run of one to three digits.
C6_NumeroDeTresDigitos ==
    /\ \A k \in 1..Len(brutas) : brutas[k].emitida => brutas[k].numero \in 0..999
    /\ \A k \in 1..Len(estruturadas) : estruturadas[k].numero \in 0..999
    /\ \A k \in 1..Len(questoes) : questoes[k].numero \in 0..999

\* C6 witness: a question whose number line reads 0 is in the final collection
C6_Witness ==
    /\ pc = "fim"
    /\ \E k \in 1..Len(brutas) : brutas[k].emitida /\ brutas[k].numero = 0
    /\ \E k \in 1..Len(questoes) : questoes[k].numero = 0

\* the positions of the image list of a page whose extraction and write succeeded
Extraidas(page) == {i \in 0..(Len(page.imagens) - 1) : page.imagens[i + 1] # Erro}

\* C7: after the image pass, whatever failed, the index holds for every page
\* exactly the images that were extracted, in order, each with its page and
\* its position in the page's image list; a page whose image list could not
\* be read holds none.
C7_IndiceDasImagens ==
    pc # "imagens" =>
        /\ DOMAIN imagens_por_pagina \subseteq 0..(Len(doc) - 1)
        /\ \A p \in 0..(Len(doc) - 1) :
              IF doc[p + 1].lista_ok
              THEN /\ p \in DOMAIN imagens_por_pagina
                   /\ {imagens_por_pagina[p][k].index : k \in 1..Len(imagens_por_pagina[p])}
                          = Extraidas(doc[p + 1])
                   /\ \A k \in 1..Len(imagens_por_pagina[p]) :
                          /\ imagens_por_pagina[p][k].pagina = p
                          /\ imagens_por_pagina[p][k].arquivo =
                                 Arquivo(p, imagens_por_pagina[p][k].index,
                                         doc[p + 1].imagens[imagens_por_pagina[p][k].index + 1])
                   /\ \A k \in 1..(Len(imagens_por_pagina[p]) - 1) :
                          imagens_por_pagina[p][k].index < imagens_por_pagina[p][k + 1].index
              ELSE p \notin DOMAIN imagens_por_pagina \/ imagens_por_pagina[p] = <<>>

\* C7 witness: the first image of the first page failed and its second image
\* is in the index at position 1; the image list of the second page could
\* not be read; the pass went on to the end.
C7_Witness ==
    /\ pc = "texto"
    /\ Len(doc) = 2
    /\ doc[1].lista_ok /\ doc[1].imagens = <<Erro, "png">>
    /\ ~doc[2].lista_ok
    /\ Len(imagens_por_pagina[0]) = 1
    /\ imagens_por_pagina[0][1].index = 1

\* C8: no text is read while the image pass runs; when it ends every page
\* whose image list can be read is in the index; and from then on no step
\* changes the index.
C8_IndiceAntesDoTexto ==
    /\ [](pc = "imagens" => texto_completo = <<>> /\ materia_atual = SemMateria)
    /\ [](pc # "imagens" =>
            \A p \in 0..(Len(doc) - 1) :
                doc[p + 1].lista_ok => p \in DOMAIN imagens_por_pagina)
    /\ [][pc # "imagens" => imagens_por_pagina' = imagens_por_pagina]_vars

\* C8 witness: the text of two pages is processed over an index with images of both
C8_Witness ==
    /\ pc = "montar"
    /\ Len(doc) = 2
    /\ DOMAIN imagens_por_pagina = {0, 1}
    /\ Len(imagens_por_pagina[0]) >= 1
    /\ Len(imagens_por_pagina[1]) >= 1
    /\ Len(questoes) >= 1
    /\ questoes[1].tem_imagem

\* the pages at or before p whose text was read and names a subject
PaginasComMateria(p) ==
    {q \in 0..p : doc[q + 1].texto_ok /\ FirstMateria(doc[q + 1].texto) # 0}

\* the subject of the most recent page at or before p that names one
MateriaAte(p) ==
    IF PaginasComMateria(p) = {} THEN SemMateria
    ELSE LET q == CHOOSE q \in PaginasComMateria(p) : \A r \in PaginasComMateria(p) : r <= q
         IN  materias[FirstMateria(doc[q + 1].texto)].materia

\* C9: the text pass writes for page p the page marker, then the subject
\* marker of the most recent page at or before p that names a subject (no
\* subject marker when none does), then the page's text; and a subject,
\* once set, is never reset to none.
C9_MarcadorDeMateria ==
    /\ [][(pc = "texto" /\ doc[page_num + 1].texto_ok) =>
            texto_completo' =
                texto_completo
                \o MarcadorPagina(page_num)
                \o (IF MateriaAte(page_num) = SemMateria
                    THEN <<>> ELSE MarcadorMateria(MateriaAte(page_num)))
                \o doc[page_num + 1].texto]_vars
    /\ [][materia_atual # SemMateria => materia_atual' # SemMateria]_vars

\* C9 witness: the first page names a subject, the second names none and
\* carries the marker of the first page's subject
C9_Witness ==
    /\ pc = "processar"
    /\ Len(doc) = 2
    /\ doc[1].texto_ok /\ doc[2].texto_ok
    /\ FirstMateria(doc[1].texto) # 0
    /\ FirstMateria(doc[2].texto) = 0
    /\ materia_atual = materias[FirstMateria(doc[1].texto)].materia
    /\ \E i \in 1..Len(texto_completo) :
          LitAt(texto_completo, i, MarcadorPagina(1) \o MarcadorMateria(materia_atual))

\* the number of the last page marker of a context, and none when it holds no marker
UltimaPagina(contexto) ==
    IF \E i \in 1..Len(contexto) : PaginaAt(contexto, i)
    THEN LET i == CHOOSE i \in 1..Len(contexto) :
                    /\ PaginaAt(contexto, i)
                    /\ \A j \in (i + 1)..Len(contexto) : ~PaginaAt(contexto, j)
         IN  ParseInt(Slice(contexto, i + Len(PAGINA), SkipDigits(contexto, i + Len(PAGINA))))
    ELSE Nenhum

\* C10: the page passed to the image association is the number of the last
\* page marker of the context before the question, and none when the
\* context holds no marker.
C10_UltimoMarcadorDePagina ==
    \A k \in 1..Len(brutas) : brutas[k].pagina = UltimaPagina(brutas[k].contexto)

====
